---- MODULE Spec2Model ----
(***************************************************************************)
(* The dealer of the aggregated range proof                                *)
(* (src/aggregated_range_proof/dealer.rs): a typestate pipeline            *)
(*   Dealer::new -> DealerAwaitingValueCommitments                         *)
(*               -> DealerAwaitingPolyCommitments                          *)
(*               -> DealerAwaitingProofShares -> (AggregatedProof, ...)    *)
(* driving one exclusively borrowed ProofTranscript.                       *)
(*                                                                         *)
(* The transcript is modelled by its operation log.  A challenge scalar is *)
(* the symbolic value "challenge over the log so far", so two challenges   *)
(* are equal exactly when they were derived from equal logs.  Curve points *)
(* are the integers modulo GroupOrder under addition, scalars the integers *)
(* modulo ScalarOrder.                                                     *)
(***************************************************************************)
EXTENDS Integers, Sequences, FiniteSets, TLC

VARIABLES
    transcript,  \* the ProofTranscript: the sequence of operations applied to it
    rounds,      \* history: rounds[i] is the length the transcript had when the
                 \* call that applied operation i started (one id per call)
    dealer,      \* the live dealer state value, or NoDealer
    setup,       \* history: the (n, m) accepted by the latest Dealer::new
    issued,      \* the caller's copies of the ValueChallenge and PolyChallenge
                 \* returned so far by the stages of the current pipeline
    received,    \* history: the records the stages of the current pipeline
                 \* accepted from the parties so far
    last         \* the latest call: operation, arguments, result, returned value

vars == <<transcript, rounds, dealer, setup, issued, received, last>>

----------------------------------------------------------------------------
(* Bounds of the model *)

\* Dealer::new is tried with every n in 0..MaxN and m in 0..MaxM
MaxN == 4
MaxM == 2
\* receive_* is handed sequences of length 0..MaxLen
MaxLen == 3
\* the number of distinct per-party records the inputs are built from
NumParties == 2
\* the orders of the point group and of the scalar field of the model
GroupOrder == 5
ScalarOrder == 5
\* a further Dealer::new (after a pipeline failed) borrows the transcript only
\* while it holds at most this many operations
MaxRestartLen == 2
\* the ranges of n and m tried by the Dealer::new-only specification SpecNew
WideN == 130
WideM == 17

----------------------------------------------------------------------------
(* Results: Ok, or the &'static str of the Err *)

Ok == "Ok"
ErrBitWidth == "n is not valid: must be a power of 2, and less than or equal to 64"
ErrPartyCount == "m is not valid: must be a power of 2"
ErrValueLen == "Length of value commitments doesn't match expected length m"
ErrPolyLen == "Length of poly commitments doesn't match expected length m"
ErrShareLen == "Length of proof shares doesn't match expected length m"

----------------------------------------------------------------------------
(* Group and field arithmetic *)

Points == 0 .. (GroupOrder - 1)
Scalars == 0 .. (ScalarOrder - 1)
identity == 0
zero == 0
PointAdd(P, Q) == (P + Q) % GroupOrder
ScalarAdd(a, b) == (a + b) % ScalarOrder

\* RistrettoPoint::compress().as_bytes(), Scalar::as_bytes(): injective encodings
Compress(P) == [enc |-> "CompressedRistretto", v |-> P]
ScalarBytes(s) == [enc |-> "Scalar", v |-> s]
\* `n as u64`: usize to u64 never truncates
U64(x) == [enc |-> "u64", v |-> x]

----------------------------------------------------------------------------
(* ProofTranscript: commit, commit_u64, challenge_scalar *)

commit(t, bytes) == Append(t, [op |-> "commit", data |-> bytes])
commit_u64(t, x) == Append(t, [op |-> "commit_u64", data |-> U64(x)])
\* the scalar derived from everything the transcript has seen so far ...
challenge_value(t) == [challenge |-> t]
\* ... and the transcript after the derivation, which has advanced
challenge_advance(t) ==
    Append(t, [op |-> "challenge_scalar", data |-> [enc |-> "none", v |-> 0]])

----------------------------------------------------------------------------
(* Messages: the per-party records the dealer is handed *)

ValueCommitmentOf(k) ==
    [V |-> k % GroupOrder, A |-> (2 * k + 1) % GroupOrder, S |-> (3 * k + 2) % GroupOrder]
PolyCommitmentOf(k) ==
    [T_1 |-> (k + 3) % GroupOrder, T_2 |-> (4 * k) % GroupOrder]
ProofShareOf(k, n) ==
    [value_commitment |-> ValueCommitmentOf(k),
     poly_commitment |-> PolyCommitmentOf(k),
     t_x |-> k % ScalarOrder,
     t_x_blinding |-> (k + 2) % ScalarOrder,
     e_blinding |-> (2 * k + 3) % ScalarOrder,
     l_vec |-> [i \in 1 .. n |-> (k + i) % ScalarOrder],
     r_vec |-> [i \in 1 .. n |-> (k * i + 1) % ScalarOrder]]

Parties == 1 .. NumParties
SeqsUpTo(S, len) == UNION {[1 .. l -> S] : l \in 0 .. len}
ValueCommitmentInputs == SeqsUpTo({ValueCommitmentOf(k) : k \in Parties}, MaxLen)
PolyCommitmentInputs == SeqsUpTo({PolyCommitmentOf(k) : k \in Parties}, MaxLen)
ProofShareInputs(n) == SeqsUpTo({ProofShareOf(k, n) : k \in Parties}, MaxLen)

----------------------------------------------------------------------------
(* Collaborators of receive_shares *)

\* GeneratorsView: the primary generator B and the generator vectors G and H
GeneratorsView(n, m) ==
    [B |-> "B", G |-> [gens |-> "G", len |-> n * m], H |-> [gens |-> "H", len |-> n * m]]

\* util::exp_iter(x): the sequence 1, x, x^2, ...; Scalar::invert
exp_iter(x) == [exp_iter |-> x]
invert(x) == [invert |-> x]
\* w * B
ScalarMul(w, P) == [scalar |-> w, point |-> P]

\* InnerProductProof::create: runs on the transcript, which it advances, and
\* returns a proof that is a function of the transcript and of its arguments
InnerProductProof_create(t, Q, Hprime_factors, G, H, a, b) ==
    LET call == [Q |-> Q, Hprime_factors |-> Hprime_factors, G |-> G, H |-> H,
                 a |-> a, b |-> b]
    IN  [transcript |-> Append(t, [op |-> "InnerProductProof::create", data |-> call]),
         proof |-> [verifier |-> t, call |-> call]]

----------------------------------------------------------------------------
(* Dealer states: each function takes the state `self` by value together   *)
(* with the transcript it borrows, and yields the result, the transcript   *)
(* afterwards, the next state (NoDealer when none is returned) and the     *)
(* value returned beside the next state.                                   *)

NoDealer == [type |-> "None"]
NoOutput == [none |-> 0]
NoneIssued == [value_challenge |-> NoOutput, poly_challenge |-> NoOutput]
NoneReceived == [value_commitments |-> <<>>, poly_commitments |-> <<>>]
NoCall == [op |-> "none", args |-> <<>>, result |-> "none", out |-> NoOutput]

\* usize::is_power_of_two: exactly one bit set (0 is not a power of two)
RECURSIVE is_power_of_two(_)
is_power_of_two(x) ==
    IF x <= 0 THEN FALSE
    ELSE IF x = 1 THEN TRUE
    ELSE x % 2 = 0 /\ is_power_of_two(x \div 2)

\* Dealer::new with the bound on n left out
Dealer_new_NoUpperBound(n, m, t) ==
    IF ~is_power_of_two(n)
    THEN [result |-> ErrBitWidth, transcript |-> t, state |-> NoDealer, out |-> NoOutput]
    ELSE IF ~is_power_of_two(m)
    THEN [result |-> ErrPartyCount, transcript |-> t, state |-> NoDealer, out |-> NoOutput]
    ELSE [result |-> Ok, transcript |-> commit_u64(commit_u64(t, n), m),
          state |-> [type |-> "DealerAwaitingValueCommitments", n |-> n, m |-> m],
          out |-> NoOutput]

\* Dealer::new committing m before n
Dealer_new_PartyCountFirst(n, m, t) ==
    IF ~is_power_of_two(n) \/ n > 64
    THEN [result |-> ErrBitWidth, transcript |-> t, state |-> NoDealer, out |-> NoOutput]
    ELSE IF ~is_power_of_two(m)
    THEN [result |-> ErrPartyCount, transcript |-> t, state |-> NoDealer, out |-> NoOutput]
    ELSE [result |-> Ok, transcript |-> commit_u64(commit_u64(t, m), n),
          state |-> [type |-> "DealerAwaitingValueCommitments", n |-> n, m |-> m],
          out |-> NoOutput]

Dealer_new(n, m, t) ==
    IF ~is_power_of_two(n) \/ n > 64
    THEN [result |-> ErrBitWidth, transcript |-> t, state |-> NoDealer, out |-> NoOutput]
    ELSE IF ~is_power_of_two(m)
    THEN [result |-> ErrPartyCount, transcript |-> t, state |-> NoDealer, out |-> NoOutput]
    ELSE LET t1 == commit_u64(t, n)
             t2 == commit_u64(t1, m)
         IN  [result |-> Ok, transcript |-> t2,
              state |-> [type |-> "DealerAwaitingValueCommitments", n |-> n, m |-> m],
              out |-> NoOutput]

\* the loop of receive_value_commitments after i records: the transcript and
\* the running sums A and S
RECURSIVE ValueCommitmentLoop(_, _, _)
ValueCommitmentLoop(t, value_commitments, i) ==
    IF i = 0 THEN [transcript |-> t, A |-> identity, S |-> identity]
    ELSE LET before == ValueCommitmentLoop(t, value_commitments, i - 1)
             commitment == value_commitments[i]
         IN  [transcript |-> commit(before.transcript, Compress(commitment.V)),
              A |-> PointAdd(before.A, commitment.A),
              S |-> PointAdd(before.S, commitment.S)]

\* receive_value_commitments committing S before A
receive_value_commitments_SwappedSums(self, t, value_commitments) ==
    IF self.m # Len(value_commitments)
    THEN [result |-> ErrValueLen, transcript |-> t, state |-> NoDealer, out |-> NoOutput]
    ELSE LET loop == ValueCommitmentLoop(t, value_commitments, Len(value_commitments))
             t2 == commit(commit(loop.transcript, Compress(loop.S)), Compress(loop.A))
             t3 == challenge_advance(t2)
             value_challenge == [y |-> challenge_value(t2), z |-> challenge_value(t3)]
         IN  [result |-> Ok, transcript |-> challenge_advance(t3),
              state |-> [type |-> "DealerAwaitingPolyCommitments",
                         n |-> self.n, m |-> self.m,
                         value_challenge |-> value_challenge],
              out |-> value_challenge]

\* receive_value_commitments committing the V before it checks the length
receive_value_commitments_CommitsBeforeCheck(self, t, value_commitments) ==
    LET loop == ValueCommitmentLoop(t, value_commitments, Len(value_commitments))
    IN  IF self.m # Len(value_commitments)
        THEN [result |-> ErrValueLen, transcript |-> loop.transcript, state |-> NoDealer,
              out |-> NoOutput]
        ELSE LET t2 == commit(commit(loop.transcript, Compress(loop.A)), Compress(loop.S))
                 t3 == challenge_advance(t2)
                 value_challenge == [y |-> challenge_value(t2), z |-> challenge_value(t3)]
             IN  [result |-> Ok, transcript |-> challenge_advance(t3),
                  state |-> [type |-> "DealerAwaitingPolyCommitments",
                             n |-> self.n, m |-> self.m,
                             value_challenge |-> value_challenge],
                  out |-> value_challenge]

\* receive_value_commitments committing only the sums, no V of its own
receive_value_commitments_SumsOnly(self, t, value_commitments) ==
    IF self.m # Len(value_commitments)
    THEN [result |-> ErrValueLen, transcript |-> t, state |-> NoDealer, out |-> NoOutput]
    ELSE LET loop == ValueCommitmentLoop(t, value_commitments, Len(value_commitments))
             t2 == commit(commit(t, Compress(loop.A)), Compress(loop.S))
             t3 == challenge_advance(t2)
             value_challenge == [y |-> challenge_value(t2), z |-> challenge_value(t3)]
         IN  [result |-> Ok, transcript |-> challenge_advance(t3),
              state |-> [type |-> "DealerAwaitingPolyCommitments",
                         n |-> self.n, m |-> self.m,
                         value_challenge |-> value_challenge],
              out |-> value_challenge]

\* receive_value_commitments handing n and m on in each other's place
receive_value_commitments_SwappedParams(self, t, value_commitments) ==
    IF self.m # Len(value_commitments)
    THEN [result |-> ErrValueLen, transcript |-> t, state |-> NoDealer, out |-> NoOutput]
    ELSE LET loop == ValueCommitmentLoop(t, value_commitments, Len(value_commitments))
             t2 == commit(commit(loop.transcript, Compress(loop.A)), Compress(loop.S))
             t3 == challenge_advance(t2)
             value_challenge == [y |-> challenge_value(t2), z |-> challenge_value(t3)]
         IN  [result |-> Ok, transcript |-> challenge_advance(t3),
              state |-> [type |-> "DealerAwaitingPolyCommitments",
                         n |-> self.m, m |-> self.n,
                         value_challenge |-> value_challenge],
              out |-> value_challenge]

receive_value_commitments(self, t, value_commitments) ==
    IF self.m # Len(value_commitments)
    THEN [result |-> ErrValueLen, transcript |-> t, state |-> NoDealer, out |-> NoOutput]
    ELSE LET loop == ValueCommitmentLoop(t, value_commitments, Len(value_commitments))
             t1 == commit(loop.transcript, Compress(loop.A))
             t2 == commit(t1, Compress(loop.S))
             y == challenge_value(t2)
             t3 == challenge_advance(t2)
             z == challenge_value(t3)
             t4 == challenge_advance(t3)
             value_challenge == [y |-> y, z |-> z]
         IN  [result |-> Ok, transcript |-> t4,
              state |-> [type |-> "DealerAwaitingPolyCommitments",
                         n |-> self.n, m |-> self.m,
                         value_challenge |-> value_challenge],
              out |-> value_challenge]

\* the loop of receive_poly_commitments after i records: the running sums
RECURSIVE PolyCommitmentLoop(_, _)
PolyCommitmentLoop(poly_commitments, i) ==
    IF i = 0 THEN [T1 |-> identity, T2 |-> identity]
    ELSE LET before == PolyCommitmentLoop(poly_commitments, i - 1)
             commitment == poly_commitments[i]
         IN  [T1 |-> PointAdd(before.T1, commitment.T_1),
              T2 |-> PointAdd(before.T2, commitment.T_2)]

\* receive_poly_commitments deriving x before T2 is committed
receive_poly_commitments_EarlyChallenge(self, t, poly_commitments) ==
    IF self.m # Len(poly_commitments)
    THEN [result |-> ErrPolyLen, transcript |-> t, state |-> NoDealer, out |-> NoOutput]
    ELSE LET loop == PolyCommitmentLoop(poly_commitments, Len(poly_commitments))
             t1 == commit(t, Compress(loop.T1))
             poly_challenge == [x |-> challenge_value(t1)]
         IN  [result |-> Ok,
              transcript |-> commit(challenge_advance(t1), Compress(loop.T2)),
              state |-> [type |-> "DealerAwaitingProofShares",
                         n |-> self.n, m |-> self.m,
                         value_challenge |-> self.value_challenge,
                         poly_challenge |-> poly_challenge],
              out |-> poly_challenge]

\* receive_poly_commitments handing the state back when the length is wrong
receive_poly_commitments_KeepsState(self, t, poly_commitments) ==
    IF self.m # Len(poly_commitments)
    THEN [result |-> ErrPolyLen, transcript |-> t, state |-> self, out |-> NoOutput]
    ELSE LET loop == PolyCommitmentLoop(poly_commitments, Len(poly_commitments))
             t2 == commit(commit(t, Compress(loop.T1)), Compress(loop.T2))
             poly_challenge == [x |-> challenge_value(t2)]
         IN  [result |-> Ok, transcript |-> challenge_advance(t2),
              state |-> [type |-> "DealerAwaitingProofShares",
                         n |-> self.n, m |-> self.m,
                         value_challenge |-> self.value_challenge,
                         poly_challenge |-> poly_challenge],
              out |-> poly_challenge]

\* receive_poly_commitments rejecting only sequences longer than m
receive_poly_commitments_AcceptsShort(self, t, poly_commitments) ==
    IF self.m < Len(poly_commitments)
    THEN [result |-> ErrPolyLen, transcript |-> t, state |-> NoDealer, out |-> NoOutput]
    ELSE LET loop == PolyCommitmentLoop(poly_commitments, Len(poly_commitments))
             t2 == commit(commit(t, Compress(loop.T1)), Compress(loop.T2))
             poly_challenge == [x |-> challenge_value(t2)]
         IN  [result |-> Ok, transcript |-> challenge_advance(t2),
              state |-> [type |-> "DealerAwaitingProofShares",
                         n |-> self.n, m |-> self.m,
                         value_challenge |-> self.value_challenge,
                         poly_challenge |-> poly_challenge],
              out |-> poly_challenge]

\* receive_poly_commitments committing a record's own T_1 and T_2 before the sums
receive_poly_commitments_PerRecord(self, t, poly_commitments) ==
    IF self.m # Len(poly_commitments)
    THEN [result |-> ErrPolyLen, transcript |-> t, state |-> NoDealer, out |-> NoOutput]
    ELSE LET loop == PolyCommitmentLoop(poly_commitments, Len(poly_commitments))
             t0 == commit(commit(t, Compress(poly_commitments[1].T_1)),
                          Compress(poly_commitments[1].T_2))
             t2 == commit(commit(t0, Compress(loop.T1)), Compress(loop.T2))
             poly_challenge == [x |-> challenge_value(t2)]
         IN  [result |-> Ok, transcript |-> challenge_advance(t2),
              state |-> [type |-> "DealerAwaitingProofShares",
                         n |-> self.n, m |-> self.m,
                         value_challenge |-> self.value_challenge,
                         poly_challenge |-> poly_challenge],
              out |-> poly_challenge]

\* receive_poly_commitments handing on a value challenge with y and z exchanged
receive_poly_commitments_SwappedChallenge(self, t, poly_commitments) ==
    IF self.m # Len(poly_commitments)
    THEN [result |-> ErrPolyLen, transcript |-> t, state |-> NoDealer, out |-> NoOutput]
    ELSE LET loop == PolyCommitmentLoop(poly_commitments, Len(poly_commitments))
             t2 == commit(commit(t, Compress(loop.T1)), Compress(loop.T2))
             poly_challenge == [x |-> challenge_value(t2)]
         IN  [result |-> Ok, transcript |-> challenge_advance(t2),
              state |-> [type |-> "DealerAwaitingProofShares",
                         n |-> self.n, m |-> self.m,
                         value_challenge |-> [y |-> self.value_challenge.z,
                                              z |-> self.value_challenge.y],
                         poly_challenge |-> poly_challenge],
              out |-> poly_challenge]

receive_poly_commitments(self, t, poly_commitments) ==
    IF self.m # Len(poly_commitments)
    THEN [result |-> ErrPolyLen, transcript |-> t, state |-> NoDealer, out |-> NoOutput]
    ELSE LET loop == PolyCommitmentLoop(poly_commitments, Len(poly_commitments))
             t1 == commit(t, Compress(loop.T1))
             t2 == commit(t1, Compress(loop.T2))
             x == challenge_value(t2)
             t3 == challenge_advance(t2)
             poly_challenge == [x |-> x]
         IN  [result |-> Ok, transcript |-> t3,
              state |-> [type |-> "DealerAwaitingProofShares",
                         n |-> self.n, m |-> self.m,
                         value_challenge |-> self.value_challenge,
                         poly_challenge |-> poly_challenge],
              out |-> poly_challenge]

\* iter().fold(RistrettoPoint::identity(), |acc, ps| acc + field(ps)) over the
\* first i of the field's values; likewise from Scalar::zero()
RECURSIVE FoldPoints(_, _)
FoldPoints(values, i) ==
    IF i = 0 THEN identity ELSE PointAdd(FoldPoints(values, i - 1), values[i])

RECURSIVE FoldScalars(_, _)
FoldScalars(values, i) ==
    IF i = 0 THEN zero ELSE ScalarAdd(FoldScalars(values, i - 1), values[i])

\* the vectors collected in the reverse of the party order
RECURSIVE FlatMap_Reversed(_, _)
FlatMap_Reversed(vecs, i) ==
    IF i = 0 THEN <<>> ELSE vecs[i] \o FlatMap_Reversed(vecs, i - 1)

\* iter().flat_map(|ps| vec(ps).clone().into_iter()).collect() over the first i vectors
RECURSIVE FlatMap(_, _)
FlatMap(vecs, i) ==
    IF i = 0 THEN <<>> ELSE FlatMap(vecs, i - 1) \o vecs[i]

\* the verifiers with j counting from 1
ShareVerifiers_OneBased(self, proof_shares) ==
    [p \in 1 .. Len(proof_shares) |->
        [proof_share |-> proof_shares[p],
         n |-> self.n,
         j |-> p,
         value_challenge |-> self.value_challenge,
         poly_challenge |-> self.poly_challenge]]

\* one ProofShareVerifier per share, in input order, j counting from 0
ShareVerifiers(self, proof_shares) ==
    [p \in 1 .. Len(proof_shares) |->
        [proof_share |-> proof_shares[p],
         n |-> self.n,
         j |-> p - 1,
         value_challenge |-> self.value_challenge,
         poly_challenge |-> self.poly_challenge]]

\* the aggregates with T_2 folded over the shares' T_1
Aggregate_CopiedField(proof_shares) ==
    LET len == Len(proof_shares)
    IN  [value_commitments |-> [p \in 1 .. len |-> proof_shares[p].value_commitment.V],
         A |-> FoldPoints([p \in 1 .. len |-> proof_shares[p].value_commitment.A], len),
         S |-> FoldPoints([p \in 1 .. len |-> proof_shares[p].value_commitment.S], len),
         T_1 |-> FoldPoints([p \in 1 .. len |-> proof_shares[p].poly_commitment.T_1], len),
         T_2 |-> FoldPoints([p \in 1 .. len |-> proof_shares[p].poly_commitment.T_1], len),
         t |-> FoldScalars([p \in 1 .. len |-> proof_shares[p].t_x], len),
         t_x_blinding |-> FoldScalars([p \in 1 .. len |-> proof_shares[p].t_x_blinding], len),
         e_blinding |-> FoldScalars([p \in 1 .. len |-> proof_shares[p].e_blinding], len)]

\* the aggregates with the V collected from the last share to the first
Aggregate_ReversedV(proof_shares) ==
    LET len == Len(proof_shares)
    IN  [value_commitments |->
             [p \in 1 .. len |-> proof_shares[len + 1 - p].value_commitment.V],
         A |-> FoldPoints([p \in 1 .. len |-> proof_shares[p].value_commitment.A], len),
         S |-> FoldPoints([p \in 1 .. len |-> proof_shares[p].value_commitment.S], len),
         T_1 |-> FoldPoints([p \in 1 .. len |-> proof_shares[p].poly_commitment.T_1], len),
         T_2 |-> FoldPoints([p \in 1 .. len |-> proof_shares[p].poly_commitment.T_2], len),
         t |-> FoldScalars([p \in 1 .. len |-> proof_shares[p].t_x], len),
         t_x_blinding |-> FoldScalars([p \in 1 .. len |-> proof_shares[p].t_x_blinding], len),
         e_blinding |-> FoldScalars([p \in 1 .. len |-> proof_shares[p].e_blinding], len)]

\* the aggregates of the shares: the V collected, the other fields summed
Aggregate(proof_shares) ==
    LET len == Len(proof_shares)
    IN  [value_commitments |-> [p \in 1 .. len |-> proof_shares[p].value_commitment.V],
         A |-> FoldPoints([p \in 1 .. len |-> proof_shares[p].value_commitment.A], len),
         S |-> FoldPoints([p \in 1 .. len |-> proof_shares[p].value_commitment.S], len),
         T_1 |-> FoldPoints([p \in 1 .. len |-> proof_shares[p].poly_commitment.T_1], len),
         T_2 |-> FoldPoints([p \in 1 .. len |-> proof_shares[p].poly_commitment.T_2], len),
         t |-> FoldScalars([p \in 1 .. len |-> proof_shares[p].t_x], len),
         t_x_blinding |-> FoldScalars([p \in 1 .. len |-> proof_shares[p].t_x_blinding], len),
         e_blinding |-> FoldScalars([p \in 1 .. len |-> proof_shares[p].e_blinding], len)]

\* w derived before e_blinding is committed
ShareChallenge_EarlyChallenge(t, sums) ==
    LET t1 == commit(t, ScalarBytes(sums.t))
        t2 == commit(t1, ScalarBytes(sums.t_x_blinding))
    IN  [w |-> challenge_value(t2),
         transcript |-> commit(challenge_advance(t2), ScalarBytes(sums.e_blinding))]

\* the summed scalars are committed and the combining challenge w is derived
ShareChallenge(t, sums) ==
    LET t1 == commit(t, ScalarBytes(sums.t))
        t2 == commit(t1, ScalarBytes(sums.t_x_blinding))
        t3 == commit(t2, ScalarBytes(sums.e_blinding))
    IN  [w |-> challenge_value(t3), transcript |-> challenge_advance(t3)]

receive_shares(self, t, proof_shares, gen) ==
    IF self.m # Len(proof_shares)
    THEN [result |-> ErrShareLen, transcript |-> t, state |-> NoDealer, out |-> NoOutput]
    ELSE LET len == Len(proof_shares)
             share_verifiers == ShareVerifiers(self, proof_shares)
             sums == Aggregate(proof_shares)
             challenged == ShareChallenge(t, sums)
             Q == ScalarMul(challenged.w, gen.B)
             l_vec == FlatMap([p \in 1 .. len |-> proof_shares[p].l_vec], len)
             r_vec == FlatMap([p \in 1 .. len |-> proof_shares[p].r_vec], len)
             ipp == InnerProductProof_create(challenged.transcript, Q,
                                             exp_iter(invert(self.value_challenge.y)),
                                             gen.G, gen.H, l_vec, r_vec)
             aggregated_proof ==
                 [n |-> self.n,
                  value_commitments |-> sums.value_commitments,
                  A |-> sums.A, S |-> sums.S, T_1 |-> sums.T_1, T_2 |-> sums.T_2,
                  t_x |-> sums.t, t_x_blinding |-> sums.t_x_blinding,
                  e_blinding |-> sums.e_blinding,
                  ipp_proof |-> ipp.proof]
         IN  [result |-> Ok, transcript |-> ipp.transcript, state |-> NoDealer,
              out |-> [aggregated_proof |-> aggregated_proof,
                       share_verifiers |-> share_verifiers]]

----------------------------------------------------------------------------
(* The caller: one call per step *)

Init ==
    /\ transcript = <<>>
    /\ rounds = <<>>
    /\ dealer = NoDealer
    /\ setup = [n |-> 0, m |-> 0]
    /\ issued = NoneIssued
    /\ received = NoneReceived
    /\ last = NoCall

\* a call's effect: the transcript it leaves, the operations it applied
\* attributed to it, the state it returns in place of the one it consumed
Call(op, args, r) ==
    /\ transcript' = r.transcript
    /\ rounds' = rounds \o [i \in 1 .. (Len(r.transcript) - Len(transcript))
                               |-> Len(transcript)]
    /\ dealer' = r.state
    /\ last' = [op |-> op, args |-> args, result |-> r.result, out |-> r.out]

\* Dealer::new borrows the transcript, which no live dealer may hold
DealerNew(n, m) ==
    /\ dealer = NoDealer
    /\ Len(transcript) <= MaxRestartLen
    /\ LET r == Dealer_new(n, m, transcript)
       IN  /\ Call("new", <<n, m>>, r)
           /\ setup' = IF r.result = Ok THEN [n |-> n, m |-> m] ELSE setup
           /\ issued' = IF r.result = Ok THEN NoneIssued ELSE issued
           /\ received' = IF r.result = Ok THEN NoneReceived ELSE received

ReceiveValueCommitments(value_commitments) ==
    /\ dealer.type = "DealerAwaitingValueCommitments"
    /\ LET r == receive_value_commitments(dealer, transcript, value_commitments)
       IN  /\ Call("receive_value_commitments", value_commitments, r)
           /\ issued' = IF r.result = Ok
                         THEN [issued EXCEPT !.value_challenge = r.out]
                         ELSE issued
           /\ received' = IF r.result = Ok
                           THEN [received EXCEPT !.value_commitments = value_commitments]
                           ELSE received
    /\ UNCHANGED setup

ReceivePolyCommitments(poly_commitments) ==
    /\ dealer.type = "DealerAwaitingPolyCommitments"
    /\ LET r == receive_poly_commitments(dealer, transcript, poly_commitments)
       IN  /\ Call("receive_poly_commitments", poly_commitments, r)
           /\ issued' = IF r.result = Ok
                         THEN [issued EXCEPT !.poly_challenge = r.out]
                         ELSE issued
           /\ received' = IF r.result = Ok
                           THEN [received EXCEPT !.poly_commitments = poly_commitments]
                           ELSE received
    /\ UNCHANGED setup

ReceiveShares(proof_shares) ==
    /\ dealer.type = "DealerAwaitingProofShares"
    /\ Call("receive_shares", proof_shares,
            receive_shares(dealer, transcript, proof_shares,
                           GeneratorsView(dealer.n, dealer.m)))
    /\ UNCHANGED <<setup, issued, received>>

\* the parties build their shares for the n of the dealer awaiting them
ShareWidth == IF dealer.type = "DealerAwaitingProofShares" THEN dealer.n ELSE 0

Next ==
    \/ \E n \in 0 .. MaxN, m \in 0 .. MaxM : DealerNew(n, m)
    \/ \E value_commitments \in ValueCommitmentInputs :
           ReceiveValueCommitments(value_commitments)
    \/ \E poly_commitments \in PolyCommitmentInputs :
           ReceivePolyCommitments(poly_commitments)
    \/ \E proof_shares \in ProofShareInputs(ShareWidth) : ReceiveShares(proof_shares)

Spec == Init /\ [][Next]_vars

\* Dealer::new alone, as the first call, over wide ranges of n and m
NextNew ==
    /\ last = NoCall
    /\ \E n \in 0 .. WideN, m \in 0 .. WideM : DealerNew(n, m)

SpecNew == Init /\ [][NextNew]_vars

----------------------------------------------------------------------------
(* Vocabulary of the properties *)

ReceiveOps == {"receive_value_commitments", "receive_poly_commitments", "receive_shares"}

\* the step just taken was a call of `op` that returned Ok
Succeeded(op) == last'.op = op /\ last'.result = Ok

\* the step kept every operation the transcript already held
Extends ==
    /\ Len(transcript') >= Len(transcript)
    /\ SubSeq(transcript', 1, Len(transcript)) = transcript
\* the operations the step applied to the transcript, in order
Applied == SubSeq(transcript', Len(transcript) + 1, Len(transcript'))
\* the transcript of the next state as it stood after k of the step's operations
After(k) == SubSeq(transcript', 1, Len(transcript) + k)

Absorbs(bytes) == [op |-> "commit", data |-> bytes]
IsAbsorption(e) == e.op \in {"commit", "commit_u64"}
IsDerivation(e) == e.op = "challenge_scalar"

\* sums from the additive identity, taken from the last element backwards
RECURSIVE SumOf(_)
SumOf(values) == IF values = <<>> THEN 0 ELSE Head(values) + SumOf(Tail(values))
GroupSum(values) == SumOf(values) % GroupOrder
FieldSum(values) == SumOf(values) % ScalarOrder

----------------------------------------------------------------------------
\* C1: a successful receive_value_commitments applies to the transcript
\* exactly: absorb V of each record in input order, absorb A_sum, absorb
\* S_sum, derive y, derive z (m + 2 absorptions, then 2 derivations, y first),
\* A_sum and S_sum being the group sums of the A_i and of the S_i.
C1_ValueCommitmentOps ==
    [][Succeeded("receive_value_commitments") =>
        LET records == last'.args
            m == Len(records)
            ops == Applied
        IN  /\ Extends
            /\ Len(ops) = m + 4
            /\ \A i \in 1 .. m : ops[i] = Absorbs(Compress(records[i].V))
            /\ ops[m + 1] = Absorbs(Compress(GroupSum([i \in 1 .. m |-> records[i].A])))
            /\ ops[m + 2] = Absorbs(Compress(GroupSum([i \in 1 .. m |-> records[i].S])))
            /\ IsDerivation(ops[m + 3])
            /\ IsDerivation(ops[m + 4])
            /\ last'.out.y = challenge_value(After(m + 2))
            /\ last'.out.z = challenge_value(After(m + 3))
      ]_vars

C1_Witness ==
    /\ last.op = "receive_value_commitments"
    /\ last.result = Ok
    /\ Len(last.args) = 2
    /\ last.args[1] # last.args[2]

\* C2: in every reachable state, within the operations of one call (one
\* round) every challenge derivation comes after all of the round's
\* absorptions: no absorption follows a derivation of its round.
C2_ChallengesAfterAbsorptions ==
    /\ Len(rounds) = Len(transcript)
    /\ \A i, j \in 1 .. Len(transcript) :
           (i < j /\ rounds[i] = rounds[j] /\ IsDerivation(transcript[i]))
               => ~IsAbsorption(transcript[j])
    /\ \A j \in 1 .. Len(transcript) :
           IsDerivation(transcript[j])
               => \E i \in 1 .. (j - 1) :
                      rounds[i] = rounds[j] /\ IsAbsorption(transcript[i])

C2_Witness ==
    /\ last.op = "receive_shares"
    /\ last.result = Ok
    /\ Cardinality({rounds[i] : i \in 1 .. Len(rounds)}) = 4
    /\ Cardinality({i \in 1 .. Len(transcript) : IsDerivation(transcript[i])}) = 4

\* C3: the stages are traversed only in the order Setup ->
\* AwaitingValueCommitments -> AwaitingPolyCommitments -> AwaitingProofShares
\* -> output: every receive_* consumes the state it is applied to, a stage is
\* entered only from its predecessor by its predecessor's operation, and no
\* call leaves the dealer in the stage it was applied to.
C3_StageOrder ==
    [][LET from == dealer.type
           to == dealer'.type
           op == last'.op
       IN  /\ op = "new" => from = "None"
           /\ op = "receive_value_commitments" => from = "DealerAwaitingValueCommitments"
           /\ op = "receive_poly_commitments" => from = "DealerAwaitingPolyCommitments"
           /\ op = "receive_shares" => from = "DealerAwaitingProofShares" /\ to = "None"
           /\ to = "DealerAwaitingValueCommitments" => op = "new"
           /\ to = "DealerAwaitingPolyCommitments" => op = "receive_value_commitments"
           /\ to = "DealerAwaitingProofShares" => op = "receive_poly_commitments"
           /\ from # "None" => to # from
      ]_vars

C3_Witness ==
    /\ last.op = "receive_shares"
    /\ last.result = Ok
    /\ dealer = NoDealer
    /\ issued.value_challenge # NoOutput
    /\ issued.poly_challenge # NoOutput

\* C4: each receive_* fails with its length-mismatch error if and only if
\* the length of the sequence it is handed differs from the m fixed at Setup,
\* and succeeds when the length equals m.
C4_LengthMismatchIff ==
    last.op \in ReceiveOps =>
        LET mismatch == CASE last.op = "receive_value_commitments" -> ErrValueLen
                          [] last.op = "receive_poly_commitments" -> ErrPolyLen
                          [] last.op = "receive_shares" -> ErrShareLen
        IN  /\ last.result \in {Ok, mismatch}
            /\ last.result = mismatch <=> Len(last.args) # setup.m
            /\ last.result = Ok <=> Len(last.args) = setup.m

C4_Witness ==
    /\ last.op = "receive_poly_commitments"
    /\ last.result = ErrPolyLen
    /\ setup.m = 2
    /\ Len(last.args) = 3

\* the numbers of absorptions and of derivations among the step's operations
AbsorptionsApplied == Cardinality({i \in 1 .. Len(Applied) : IsAbsorption(Applied[i])})
DerivationsApplied == Cardinality({i \in 1 .. Len(Applied) : IsDerivation(Applied[i])})

\* a successful receive_* applied all of its stage's absorptions and derivations
AllApplied ==
    /\ Extends
    /\ last'.op = "receive_value_commitments"
           => AbsorptionsApplied = Len(last'.args) + 2 /\ DerivationsApplied = 2
    /\ last'.op = "receive_poly_commitments"
           => AbsorptionsApplied = 2 /\ DerivationsApplied = 1
    /\ last'.op = "receive_shares"
           => AbsorptionsApplied = 3 /\ DerivationsApplied = 1

\* C5 as stated: a receive_* that fails with a length mismatch leaves the
\* transcript as it was and the dealer state unaffected; one that succeeds
\* applied all of its stage's absorptions and derivations.
C5_FailureLeavesStateUnaffected ==
    [][last'.op \in ReceiveOps =>
        IF last'.result # Ok
        THEN transcript' = transcript /\ dealer' = dealer
        ELSE AllApplied
      ]_vars

\* C5 as amended: a receive_* that fails with a length mismatch leaves the
\* transcript as it was (no absorption, no derivation) and changes no
\* parameter or challenge, but the dealer state it was applied to is consumed
\* and not handed back; one that succeeds applied all of its stage's
\* absorptions and derivations.
C5_FailureLeavesTranscript ==
    [][last'.op \in ReceiveOps =>
        IF last'.result # Ok
        THEN /\ transcript' = transcript
             /\ rounds' = rounds
             /\ setup' = setup
             /\ issued' = issued
             /\ last'.out = NoOutput
             /\ dealer' = NoDealer
        ELSE AllApplied
      ]_vars

C5_Witness ==
    /\ last.op = "receive_value_commitments"
    /\ last.result = ErrValueLen
    /\ setup.m = 2
    /\ Len(last.args) = 3
    /\ Len(transcript) = 4

\* powers of two, by enumeration of the exponents
IsPowerOfTwo(x) == \E k \in 0 .. 30 : x = 2 ^ k
ValidBitWidth(n) == IsPowerOfTwo(n) /\ n <= 64

\* C6 as stated: Dealer::new fails with the bit-width error unless n is a
\* power of two and n <= 64, fails with the party-count error unless m is a
\* power of two, and succeeds exactly when n is in {1,2,4,8,16,32,64} and m
\* is a power of two.
C6_NewRejects ==
    last.op = "new" =>
        LET n == last.args[1]
            m == last.args[2]
        IN  /\ ~ValidBitWidth(n) => last.result = ErrBitWidth
            /\ ~IsPowerOfTwo(m) => last.result = ErrPartyCount
            /\ last.result = Ok <=> (n \in {1, 2, 4, 8, 16, 32, 64} /\ IsPowerOfTwo(m))

\* C6 as amended: Dealer::new fails with the bit-width error unless n is a
\* power of two and n <= 64, whatever m is; for such an n it fails with the
\* party-count error unless m is a power of two; and it succeeds exactly when
\* n is in {1,2,4,8,16,32,64} and m is a power of two, however large.
C6_NewRejectsBitWidthFirst ==
    last.op = "new" =>
        LET n == last.args[1]
            m == last.args[2]
        IN  /\ last.result \in {Ok, ErrBitWidth, ErrPartyCount}
            /\ ~ValidBitWidth(n) => last.result = ErrBitWidth
            /\ (ValidBitWidth(n) /\ ~IsPowerOfTwo(m)) => last.result = ErrPartyCount
            /\ last.result = Ok <=> (n \in {1, 2, 4, 8, 16, 32, 64} /\ IsPowerOfTwo(m))

C6_Witness ==
    /\ last.op = "new"
    /\ last.args = <<128, 3>>
    /\ last.result = ErrBitWidth

\* C7: a successful Dealer::new absorbs exactly two values, n and then m,
\* and derives no challenge; a failing one leaves the transcript unchanged.
C7_NewAbsorbsNThenM ==
    [][last'.op = "new" =>
        IF last'.result = Ok
        THEN /\ Extends
             /\ Applied = << [op |-> "commit_u64", data |-> U64(last'.args[1])],
                             [op |-> "commit_u64", data |-> U64(last'.args[2])] >>
        ELSE transcript' = transcript
      ]_vars

C7_Witness ==
    /\ last.op = "new"
    /\ last.result = Ok
    /\ last.args = <<4, 2>>
    /\ Len(transcript) = 4

\* C8: a successful receive_poly_commitments applies exactly three
\* operations: absorb T1_sum, absorb T2_sum, derive x; no T_1_i or T_2_i of
\* its own is absorbed, whatever m is.
C8_PolyCommitmentOps ==
    [][Succeeded("receive_poly_commitments") =>
        LET records == last'.args
            m == Len(records)
        IN  /\ Extends
            /\ Len(Applied) = 3
            /\ Applied[1] = Absorbs(Compress(GroupSum([i \in 1 .. m |-> records[i].T_1])))
            /\ Applied[2] = Absorbs(Compress(GroupSum([i \in 1 .. m |-> records[i].T_2])))
            /\ IsDerivation(Applied[3])
            /\ last'.out.x = challenge_value(After(2))
      ]_vars

C8_Witness ==
    /\ last.op = "receive_poly_commitments"
    /\ last.result = Ok
    /\ Len(last.args) = 2
    /\ last.args[1] # last.args[2]

\* C9: a successful receive_shares absorbs the summed t_x, the summed
\* t_x_blinding and the summed e_blinding, derives w, and only then runs the
\* inner-product protocol on the transcript, with Q = w * B and the powers of
\* the inverse of the y that stage 2 returned; nothing of the dealer's follows
\* that call.
C9_ShareOps ==
    [][Succeeded("receive_shares") =>
        LET shares == last'.args
            m == Len(shares)
        IN  /\ Extends
            /\ Len(Applied) = 5
            /\ Applied[1] = Absorbs(ScalarBytes(FieldSum([i \in 1 .. m |-> shares[i].t_x])))
            /\ Applied[2] =
                   Absorbs(ScalarBytes(FieldSum([i \in 1 .. m |-> shares[i].t_x_blinding])))
            /\ Applied[3] =
                   Absorbs(ScalarBytes(FieldSum([i \in 1 .. m |-> shares[i].e_blinding])))
            /\ IsDerivation(Applied[4])
            /\ Applied[5].op = "InnerProductProof::create"
            /\ Applied[5].data.Q = ScalarMul(challenge_value(After(3)), "B")
            /\ Applied[5].data.Hprime_factors = exp_iter(invert(issued.value_challenge.y))
            /\ last'.out.aggregated_proof.ipp_proof.verifier = After(4)
      ]_vars

C9_Witness ==
    /\ last.op = "receive_shares"
    /\ last.result = Ok
    /\ Len(last.args) = 2
    /\ last.args[1] # last.args[2]
    /\ transcript[Len(transcript)].op = "InnerProductProof::create"

\* C10: a successful receive_shares returns exactly m ProofShareVerifier
\* records; the j-th (from 0) has index j, a copy of the j-th input share,
\* the n of Setup and the challenges returned by stages 2 and 3.
C10_ShareVerifiers ==
    (last.op = "receive_shares" /\ last.result = Ok) =>
        LET verifiers == last.out.share_verifiers
        IN  /\ Len(verifiers) = setup.m
            /\ \A j \in 0 .. (setup.m - 1) :
                   /\ verifiers[j + 1].j = j
                   /\ verifiers[j + 1].proof_share = last.args[j + 1]
                   /\ verifiers[j + 1].n = setup.n
                   /\ verifiers[j + 1].value_challenge = issued.value_challenge
                   /\ verifiers[j + 1].poly_challenge = issued.poly_challenge

C10_Witness ==
    /\ last.op = "receive_shares"
    /\ last.result = Ok
    /\ setup.m = 2
    /\ setup.n = 4
    /\ Len(last.out.share_verifiers) = 2
    /\ last.out.share_verifiers[1].proof_share # last.out.share_verifiers[2].proof_share

\* C11: in the AggregatedProof of a successful receive_shares,
\* value_commitments is the list of the shares' V in input order, of length
\* m, and each of A, S, T_1, T_2, t_x, t_x_blinding, e_blinding is the sum
\* over the shares of that field, from the additive identity.
C11_AggregatedProofFields ==
    (last.op = "receive_shares" /\ last.result = Ok) =>
        LET shares == last.args
            m == Len(shares)
            proof == last.out.aggregated_proof
        IN  /\ Len(proof.value_commitments) = setup.m
            /\ proof.value_commitments = [i \in 1 .. m |-> shares[i].value_commitment.V]
            /\ proof.A = GroupSum([i \in 1 .. m |-> shares[i].value_commitment.A])
            /\ proof.S = GroupSum([i \in 1 .. m |-> shares[i].value_commitment.S])
            /\ proof.T_1 = GroupSum([i \in 1 .. m |-> shares[i].poly_commitment.T_1])
            /\ proof.T_2 = GroupSum([i \in 1 .. m |-> shares[i].poly_commitment.T_2])
            /\ proof.t_x = FieldSum([i \in 1 .. m |-> shares[i].t_x])
            /\ proof.t_x_blinding = FieldSum([i \in 1 .. m |-> shares[i].t_x_blinding])
            /\ proof.e_blinding = FieldSum([i \in 1 .. m |-> shares[i].e_blinding])

C11_Witness ==
    /\ last.op = "receive_shares"
    /\ last.result = Ok
    /\ Len(last.args) = 2
    /\ last.args[1] # last.args[2]
    /\ last.out.aggregated_proof.T_1 # last.out.aggregated_proof.T_2
    /\ last.out.aggregated_proof.value_commitments[1]
           # last.out.aggregated_proof.value_commitments[2]

\* C12: on a successful receive_shares (the shares' l_vec and r_vec having
\* length n each) the l_vec handed to the inner-product protocol is the
\* shares' l_vec back to back in party order, of total length n * m, and the
\* r_vec handed to it likewise.
C12_ConcatenatedVectors ==
    (last.op = "receive_shares" /\ last.result = Ok) =>
        LET shares == last.args
            call == transcript[Len(transcript)].data
        IN  /\ transcript[Len(transcript)].op = "InnerProductProof::create"
            /\ Len(call.a) = setup.n * setup.m
            /\ Len(call.b) = setup.n * setup.m
            /\ \A j \in 0 .. (setup.m - 1) : \A i \in 1 .. setup.n :
                   /\ call.a[j * setup.n + i] = shares[j + 1].l_vec[i]
                   /\ call.b[j * setup.n + i] = shares[j + 1].r_vec[i]

C12_Witness ==
    /\ last.op = "receive_shares"
    /\ last.result = Ok
    /\ setup.n = 4
    /\ setup.m = 2
    /\ last.args[1].l_vec # last.args[2].l_vec
    /\ Len(transcript[Len(transcript)].data.a) = 8

\* C13: there is no retry state: a receive_* that failed with a length
\* mismatch leaves no dealer state, and the only call that can follow it on
\* that transcript is a new Dealer::new.
C13_NoRetry ==
    [][/\ (last'.op \in ReceiveOps /\ last'.result # Ok) => dealer' = NoDealer
       /\ (last.op \in ReceiveOps /\ last.result # Ok) => last'.op = "new"
      ]_vars

C13_Witness ==
    /\ last.op = "new"
    /\ last.result = Ok
    /\ Len(transcript) = 4
    /\ transcript[1].data.v = 2
    /\ transcript[3].data.v = 4

\* C15: had the records of a successful receive_value_commitments been
\* handed over in another order, from the same state, the sums A_sum and
\* S_sum bound to the transcript would be the same, and the challenges y and
\* z would both differ whenever the order of the records differs.
C15_PermutedValueCommitments ==
    [][Succeeded("receive_value_commitments") =>
        LET records == last'.args
            m == Len(records)
            at == Len(transcript)
        IN  \A perm \in Permutations(1 .. m) :
                LET permuted == [i \in 1 .. m |-> records[perm[i]]]
                    other == receive_value_commitments(dealer, transcript, permuted)
                IN  /\ other.result = Ok
                    /\ other.transcript[at + m + 1] = transcript'[at + m + 1]
                    /\ other.transcript[at + m + 2] = transcript'[at + m + 2]
                    /\ permuted # records =>
                           /\ other.out.y # last'.out.y
                           /\ other.out.z # last'.out.z
                    /\ permuted = records => other.out = last'.out
      ]_vars

C15_Witness ==
    /\ last.op = "receive_value_commitments"
    /\ last.result = Ok
    /\ Len(last.args) = 2
    /\ last.args[1].V # last.args[2].V
    /\ last.args[1].A # last.args[2].A
    /\ last.args[1].S # last.args[2].S

\* C16: every dealer state after a successful Setup holds the n and m that
\* were passed to Dealer::new, n a power of two no greater than 64 and m a
\* power of two, and the AggregatedProof returned at the end holds that n.
C16_ParametersKept ==
    /\ dealer.type # "None" =>
           /\ dealer.n = setup.n
           /\ dealer.m = setup.m
           /\ ValidBitWidth(dealer.n)
           /\ IsPowerOfTwo(dealer.m)
    /\ (last.op = "receive_shares" /\ last.result = Ok) =>
           /\ last.out.aggregated_proof.n = setup.n
           /\ ValidBitWidth(last.out.aggregated_proof.n)
           /\ IsPowerOfTwo(setup.m)

C16_Witness ==
    /\ last.op = "receive_shares"
    /\ last.result = Ok
    /\ last.out.aggregated_proof.n = 4
    /\ setup = [n |-> 4, m |-> 2]

\* After a fully successful pipeline the transcript ends with the operations
\* of stage 2 (m + 4), stage 3 (3) and stage 4 (5): what stages 2 and 3
\* absorbed, read back from the log.
Completed == last.op = "receive_shares" /\ last.result = Ok
AbsorbedV(i) == transcript[Len(transcript) - setup.m - 12 + i].data.v
AbsorbedA == transcript[Len(transcript) - 11].data.v
AbsorbedS == transcript[Len(transcript) - 10].data.v
AbsorbedT1 == transcript[Len(transcript) - 7].data.v
AbsorbedT2 == transcript[Len(transcript) - 6].data.v
\* the log from which stage 2 derived y
LogOfY == SubSeq(transcript, 1, Len(transcript) - 10)

\* C17 as stated: after a fully successful pipeline the value_commitments of
\* the AggregatedProof are, element by element, the V of the records that
\* receive_value_commitments received and absorbed.
C17_ProofCarriesReceivedV ==
    Completed =>
        /\ Len(last.out.aggregated_proof.value_commitments) = setup.m
        /\ \A i \in 1 .. setup.m :
               /\ last.out.aggregated_proof.value_commitments[i]
                      = received.value_commitments[i].V
               /\ last.out.aggregated_proof.value_commitments[i] = AbsorbedV(i)

\* C17 as amended: after a fully successful pipeline the value_commitments
\* of the AggregatedProof are, element by element, the V carried by the
\* proof shares handed to receive_shares; the i-th is the V received and
\* absorbed in stage 2 exactly when the i-th share carries that V.
C17_ProofCarriesSharesV ==
    Completed =>
        /\ Len(last.out.aggregated_proof.value_commitments) = setup.m
        /\ \A i \in 1 .. setup.m :
               /\ last.out.aggregated_proof.value_commitments[i]
                      = last.args[i].value_commitment.V
               /\ AbsorbedV(i) = received.value_commitments[i].V
               /\ last.out.aggregated_proof.value_commitments[i] = AbsorbedV(i)
                      <=> last.args[i].value_commitment.V
                              = received.value_commitments[i].V

C17_Witness ==
    /\ Completed
    /\ setup.m = 2
    /\ last.out.aggregated_proof.value_commitments[1] # AbsorbedV(1)
    /\ last.out.aggregated_proof.value_commitments[2] = AbsorbedV(2)

\* C19 as stated: after a fully successful pipeline the A, S, T_1 and T_2 of
\* the AggregatedProof are the A_sum and S_sum absorbed in stage 2 and the
\* T1_sum and T2_sum absorbed in stage 3.
C19_ProofCarriesAbsorbedSums ==
    Completed =>
        /\ last.out.aggregated_proof.A = AbsorbedA
        /\ last.out.aggregated_proof.S = AbsorbedS
        /\ last.out.aggregated_proof.T_1 = AbsorbedT1
        /\ last.out.aggregated_proof.T_2 = AbsorbedT2

\* the shares carry the commitments that stages 2 and 3 received
SharesCarryReceivedValues ==
    \A i \in 1 .. setup.m : last.args[i].value_commitment = received.value_commitments[i]
SharesCarryReceivedPolys ==
    \A i \in 1 .. setup.m : last.args[i].poly_commitment = received.poly_commitments[i]

\* C19 as amended: after a fully successful pipeline the A, S, T_1 and T_2
\* of the AggregatedProof are the sums of the commitments carried by the
\* proof shares; A and S are the A_sum and S_sum absorbed in stage 2 when the
\* shares carry the value commitments stage 2 received, and T_1 and T_2 the
\* T1_sum and T2_sum absorbed in stage 3 when they carry the poly
\* commitments stage 3 received.
C19_ProofCarriesSharesSums ==
    Completed =>
        LET shares == last.args
            m == Len(shares)
            proof == last.out.aggregated_proof
        IN  /\ proof.A = GroupSum([i \in 1 .. m |-> shares[i].value_commitment.A])
            /\ proof.S = GroupSum([i \in 1 .. m |-> shares[i].value_commitment.S])
            /\ proof.T_1 = GroupSum([i \in 1 .. m |-> shares[i].poly_commitment.T_1])
            /\ proof.T_2 = GroupSum([i \in 1 .. m |-> shares[i].poly_commitment.T_2])
            /\ SharesCarryReceivedValues => proof.A = AbsorbedA /\ proof.S = AbsorbedS
            /\ SharesCarryReceivedPolys => proof.T_1 = AbsorbedT1 /\ proof.T_2 = AbsorbedT2

C19_Witness ==
    /\ Completed
    /\ setup.m = 2
    /\ SharesCarryReceivedValues
    /\ SharesCarryReceivedPolys
    /\ last.args[1] # last.args[2]
    /\ last.out.aggregated_proof.A = AbsorbedA
    /\ last.out.aggregated_proof.T_2 = AbsorbedT2

\* C20: the ValueChallenge returned by receive_value_commitments and the
\* PolyChallenge returned by receive_poly_commitments are the ones the next
\* states retain, no later stage changes them, and the y whose inverse powers
\* go to the inner-product protocol is the y derived in stage 2.
C20_ChallengesRetained ==
    /\ (last.op = "receive_value_commitments" /\ last.result = Ok) =>
           dealer.value_challenge = last.out
    /\ (last.op = "receive_poly_commitments" /\ last.result = Ok) =>
           dealer.poly_challenge = last.out
    /\ dealer.type \in {"DealerAwaitingPolyCommitments", "DealerAwaitingProofShares"} =>
           dealer.value_challenge = issued.value_challenge
    /\ dealer.type = "DealerAwaitingProofShares" =>
           dealer.poly_challenge = issued.poly_challenge
    /\ Completed =>
           /\ issued.value_challenge.y = challenge_value(LogOfY)
           /\ transcript[Len(transcript)].data.Hprime_factors
                  = exp_iter(invert(challenge_value(LogOfY)))

C20_Witness ==
    /\ Completed
    /\ setup.m = 1
    /\ issued.value_challenge.y = challenge_value(LogOfY)
    /\ issued.value_challenge.y # issued.value_challenge.z
    /\ transcript[Len(transcript)].op = "InnerProductProof::create"

====
